---- MODULE Spec2Model ----
(***************************************************************************)
(* Model of the authenticated API client (AuthContext.jsx, the Firebase    *)
(* service wrapper and the axios interceptors of api.js) and of the        *)
(* practice-quiz grading of the Dashboard component.                       *)
(*                                                                         *)
(* JavaScript runs single-threaded: a handler runs without interruption up *)
(* to its next await, so every action below is one such run-to-await       *)
(* segment, and the awaited outcome (a mint, a sign-in, an HTTP response)  *)
(* is chosen by the environment in the action that resumes the handler.    *)
(***************************************************************************)
EXTENDS Integers, Sequences, FiniteSets, TLC

\* ---------------------------------------------------------------- bounds
MaxOps == 2         \* operations the user interface starts in one run:
                    \* login, logout and pipeline calls together
MaxQuestions == 3   \* questions of a generated practice quiz

\* Every started operation holds at most one pipeline call, and so does the
\* callback of every notification: the initial one and one per sign-in or
\* sign-out. The slots below are never all taken.
Reqs == 1..(MaxOps + 1)
Handlers == 1..(MaxOps + 1)

\* ---------------------------------------------------------------- values
\* A string is a sequence of characters; a credential's characters are
\* numbers, 0 standing for a whitespace character.
WS == 0
NoToken == <<>>                 \* localStorage.getItem gives null: falsy
Token(k) == <<k>>               \* the k-th credential minted by getIdToken
NoUser == "null"
U1 == "u1"
LoginPath == "/login"
HomePath == "/"
RegisterPath == "/register"
ResetPasswordPath == "/reset-password"
Paths == {HomePath, LoginPath, RegisterPath, ResetPasswordPath}
\* The routes wrapped in ProtectedRoute ('/' stands for the quiz routes too).
ProtectedPaths == {HomePath}

SignInErrors == {"auth/wrong-password", "auth/network-request-failed"}
SignUpErrors == {"auth/email-already-in-use"}
ProfileError == "auth/network-request-failed"
ResetErrors == {"auth/user-not-found"}
\* What the response interceptor's error handler tells apart: a timeout
\* (error.code 'ECONNABORTED'), a response with a status, and an error with
\* only a message.
Timeout == "ECONNABORTED"
NetworkError == "Network Error"
Unauthorized == "401"
ServerError == "500"
OtherErrors == {Timeout, NetworkError, ServerError}
TokenError == "auth/network-request-failed"

RECURSIVE TrimStart(_)
TrimStart(s) == IF s # <<>> /\ Head(s) = WS THEN TrimStart(Tail(s)) ELSE s

RECURSIVE TrimEnd(_)
TrimEnd(s) ==
  IF s # <<>> /\ s[Len(s)] = WS THEN TrimEnd(SubSeq(s, 1, Len(s) - 1)) ELSE s

\* String.prototype.trim
Trim(s) == TrimEnd(TrimStart(s))

\* Mutant of IncludesLogin: the login entry point is not recognised.
IncludesLogin_Never(p) == FALSE

\* window.location.pathname.includes('/login')
IncludesLogin(p) == p = LoginPath

VARIABLES
  store,        \* localStorage['firebaseToken'] (NoToken: absent)
  idpUser,      \* auth.currentUser
  notifQ,       \* principals whose onAuthStateChanged callback is due
  firebaseUser, \* AuthProvider state firebaseUser
  loading,      \* AuthProvider state loading
  notified,     \* an onAuthStateChanged notification has been delivered
  handled,      \* a subscription callback (next or error) has finished
  hpc,          \* per callback instance: "free", "mint", "verify"
  req,          \* per pipeline slot: the call's position and header
  loginPc, loginRes,
  logoutPc, logoutRes,
  registerPc, registerRes,
  resetPc, resetRes,
  lastOutcome,  \* how the last call made by a component settled
  navTimer,     \* Login.handleSubmit's setTimeout(navigate('/')) is pending
  mounted,      \* AuthProvider: "no", "yes", "gone" (unmounted)
  listeners,    \* onAuthStateChanged listeners registered and not cancelled
  unsubscribed, \* calls of unsubscribe() so far
  location,     \* window.location.pathname
  navCount,     \* assignments to window.location.href so far
  navPending,   \* a document navigation has been started
  unloaded,     \* the document has been replaced: this run is over
  ops,          \* operations started by the user interface so far
  generatedContent, \* Dashboard state: <<>> (null) or <<[type, data]>>
  selectedAnswers,  \* Dashboard state: position -> selected label
  quizSubmitted, quizResults, isSubmittingQuiz,
  posting,          \* the attempts being saved, oldest first
  isGenerating,     \* Dashboard state isGenerating
  dashboardError,   \* Dashboard state error: the banner's text
  quiz,             \* QuizAttempt state: number of questions of the quiz
  responses,        \* QuizAttempt state selectedAnswers: answered questions
  currentQuestionIndex,
  isSubmitting,     \* QuizAttempt state isSubmitting
  timeRemaining,    \* QuizAttempt state timeRemaining
  timerSeesSubmitting, \* isSubmitting as the interval's callback sees it
  attemptPosts,     \* POSTs of /quizzes/attempt in flight
  attemptView       \* QuizAttempt: "closed", "loading", "quiz", "error", "results"

providerVars == <<mounted, listeners, unsubscribed>>
regVars == <<registerPc, registerRes>>
resetVars == <<resetPc, resetRes>>
authVars == <<store, idpUser, notifQ, firebaseUser, loading, notified,
              handled, hpc, req, loginPc, loginRes, logoutPc, logoutRes,
              regVars, resetVars, lastOutcome, navTimer, providerVars,
              location, navCount, navPending, unloaded, ops>>
quizVars == <<generatedContent, selectedAnswers, quizSubmitted, quizResults,
              isSubmittingQuiz, posting, isGenerating,
              dashboardError>>
attemptVars == <<quiz, responses, currentQuestionIndex, isSubmitting,
                 timeRemaining, timerSeesSubmitting, attemptPosts, attemptView>>
vars == <<authVars, quizVars, attemptVars>>

\* ------------------------------------------------------- derived values
\* The tri-state the provider exposes: children are rendered only when
\* loading is false, and isAuthenticated is !!firebaseUser.
SessionState ==
  IF loading THEN "unknown"
  ELSE IF firebaseUser # NoUser THEN "authenticated" ELSE "unauthenticated"

\* Mutant of ProviderRenders: the children are rendered while loading.
ProviderRenders_Always(isLoading) == TRUE

\* AuthProvider's {!loading && children}.
ProviderRenders(isLoading) == ~isLoading

\* What ProtectedRoute returns.
ProtectedRoute(isAuthenticated, currentUser) ==
  IF ~isAuthenticated THEN "navigate"
  ELSE IF currentUser = NoUser THEN "spinner" ELSE "children"

\* What the routes inside the provider show at the current location.
Shown ==
  IF ~ProviderRenders(loading) THEN "nothing"
  ELSE IF location \in ProtectedPaths
       THEN ProtectedRoute(firebaseUser # NoUser, firebaseUser)
       ELSE "public"

IdleReq == [pc |-> "idle", hdr |-> NoToken, how |-> "none", owner |-> 0]
NoResult == [kind |-> "none", val |-> "none"]
\* How an async function settles for its caller.
Rejected(e) == [kind |-> "rejected", val |-> e]
Resolved(v) == [kind |-> "resolved", val |-> v]

\* Mutant of CachedHeader: the fallback attaches nothing.
CachedHeader_Dropped(cache) == NoToken

\* The header the request interceptor sets from the cached credential.
CachedHeader(cache) == IF cache # NoToken THEN Trim(cache) ELSE NoToken

\* api.<verb>(...) up to the request interceptor's first await: with a current
\* user it awaits getIdToken(true); without one it attaches the cached
\* credential, if any, and the request is sent.
ReqStarted(owner, cache) ==
  IF idpUser # NoUser
  THEN [pc |-> "mint", hdr |-> NoToken, how |-> "none", owner |-> owner]
  ELSE [pc |-> "sent", hdr |-> CachedHeader(cache),
        how |-> IF cache # NoToken THEN "cached" ELSE "bare", owner |-> owner]

\* getIdToken(true) resolving: a credential that differs from every one the
\* client still holds. Credentials are opaque to the client, so the name of
\* one that is held nowhere any more is used again.
InUse == {store} \cup {req[r].hdr : r \in Reqs}
Fresh == Token(CHOOSE k \in 1..(MaxOps + 3) :
                 /\ Token(k) \notin InUse
                 /\ \A j \in 1..(k - 1) : Token(j) \in InUse)

\* Slots are anonymous: a new call or callback takes the lowest free one.
FreeReq(r) == req[r].pc = "idle" /\ \A q \in Reqs : q < r => req[q].pc # "idle"
FreeHandler(h) == hpc[h] = "free" /\ \A g \in Handlers : g < h => hpc[g] # "free"
\* The calls in flight fill the first slots, oldest first: when the call in
\* slot r is over, the later ones move up.
Compact(q, r) ==
  [i \in Reqs |-> IF i < r THEN q[i]
                  ELSE IF i + 1 \in Reqs THEN q[i + 1] ELSE IdleReq]

\* The firing of onAuthStateChanged listeners when the principal changes.
Notify(u) == IF u # idpUser THEN Append(notifQ, u) ELSE notifQ


\* ------------------------------------------------- practice-quiz values
\* A string is a sequence of one-character strings. A position of the
\* question array is index + 1.
Undefined == <<"undefined", "undefined">>   \* no string has this value
CharAt0(str) == IF Len(str) >= 1 THEN <<str[1]>> ELSE <<>>

\* The strings a generated question may hold.
CorrectAnswers == {<<"A">>, <<"C", ")", " ", "z">>}
Options == <<<<"A", ")", " ", "x">>, <<"C", ")", " ", "z">>>>
Question(i, ca) ==
  [text |-> <<"Q", i>>, options |-> Options, correct_answer |-> ca,
   explanation |-> <<"E", i>>]
\* The question set of the grading scenario: correct answers A, B, C.
ScenarioSet ==
  <<Question(1, <<"A">>), Question(2, <<"B">>), Question(3, <<"C">>)>>
QuestionSets ==
  UNION {{[i \in 1..n |-> Question(i, f[i])] : f \in [1..n -> CorrectAnswers]}
         : n \in 0..MaxQuestions}
    \cup {ScenarioSet}
Contents ==
  {[type |-> "questions", data |-> d] : d \in QuestionSets}
    \cup {[type |-> "flashcards", data |-> <<>>]}
AttemptId == 7
NoTime == -1                    \* timeRemaining is null
NoError == ""
SubmitError == "Failed to submit quiz. Please try again."
GenerateError == "Failed to generate content. Please try again."

\* Mutant of Selected: an unanswered position defaults to the label A.
Selected_DefaultsToA(answers, i) ==
  IF i \in DOMAIN answers THEN answers[i] ELSE <<"A">>

\* selectedAnswers[index]
Selected(answers, i) == IF i \in DOMAIN answers THEN answers[i] ELSE Undefined

\* correctAnswers / totalQuestions: the quotient as the pair of its terms.
\* <<0, 0>> is NaN.
Divide(a, b) == <<a, b>>

\* Mutant of GradeQuestion: the selection is compared with the whole
\* correct_answer string.
GradeQuestion_WholeAnswer(question, answers, i) ==
  [question |-> question.text,
   selected_option |-> Selected(answers, i),
   correct_answer |-> CharAt0(question.correct_answer),
   is_correct |-> (Selected(answers, i) = question.correct_answer),
   explanation |-> question.explanation]

\* The callback of generatedContent.data.map in handleQuizSubmit.
GradeQuestion(question, answers, i) ==
  [question |-> question.text,
   selected_option |-> Selected(answers, i),
   correct_answer |-> CharAt0(question.correct_answer),
   is_correct |-> (Selected(answers, i) = CharAt0(question.correct_answer)),
   explanation |-> question.explanation]

\* The map over the questions, counting the correct ones as it goes.
RECURSIVE GradeFrom(_, _, _, _, _)
GradeFrom(data, answers, i, results, correctAnswers) ==
  IF i > Len(data)
  THEN [results |-> results, correctAnswers |-> correctAnswers]
  ELSE LET entry == GradeQuestion(data[i], answers, i)
       IN  GradeFrom(data, answers, i + 1, Append(results, entry),
                     IF entry.is_correct THEN correctAnswers + 1
                     ELSE correctAnswers)

\* Mutant of AttemptData: the score is taken over the answered questions.
AttemptData_OverAnswered(data, answers) ==
  LET g == GradeFrom(data, answers, 1, <<>>, 0)
  IN  [quiz_type |-> "practice",
       score |-> Divide(g.correctAnswers, Cardinality(DOMAIN answers)),
       questions |-> g.results]

\* attemptData of handleQuizSubmit.
AttemptData(data, answers) ==
  LET g == GradeFrom(data, answers, 1, <<>>, 0)
  IN  [quiz_type |-> "practice",
       score |-> Divide(g.correctAnswers, Len(data)),
       questions |-> g.results]

\* ---------------------------------------------------------------- Init
AuthInit ==
  /\ store \in {NoToken, Token(1)}
  /\ idpUser \in {NoUser, U1}
  /\ notifQ = <<idpUser>>
  /\ firebaseUser = NoUser
  /\ loading = TRUE
  /\ notified = FALSE
  /\ handled = FALSE
  /\ hpc = [h \in Handlers |-> "free"]
  /\ req = [r \in Reqs |-> IdleReq]
  /\ loginPc = "idle" /\ loginRes = NoResult
  /\ logoutPc = "idle" /\ logoutRes = NoResult
  /\ registerPc = "idle" /\ registerRes = NoResult
  /\ resetPc = "idle" /\ resetRes = NoResult
  /\ lastOutcome = NoResult
  /\ navTimer = FALSE
  /\ mounted = "yes" /\ listeners = 1 /\ unsubscribed = 0
  /\ location \in Paths
  /\ navCount = 0
  /\ navPending = FALSE
  /\ unloaded = FALSE
  /\ ops = 0

QuizIdle ==
  /\ generatedContent = <<>>
  /\ selectedAnswers = <<>>
  /\ quizSubmitted = FALSE
  /\ quizResults = <<>>
  /\ isSubmittingQuiz = FALSE
  /\ posting = <<>>
  /\ isGenerating = FALSE
  /\ dashboardError = NoError

\* No QuizAttempt component is mounted.
AttemptIdle ==
  /\ quiz = 0
  /\ responses = {}
  /\ currentQuestionIndex = 0
  /\ isSubmitting = FALSE
  /\ timeRemaining = NoTime
  /\ timerSeesSubmitting = FALSE
  /\ attemptPosts = 0
  /\ attemptView = "closed"

Init == AuthInit /\ QuizIdle /\ AttemptIdle

\* ------------------------------------------- principal-change callbacks
\* Mutant of AuthChangedNull: the credential is left in the store.
AuthChangedNull_KeepsStore ==
  /\ ~unloaded
  /\ listeners > 0
  /\ notifQ # <<>> /\ Head(notifQ) = NoUser
  /\ notifQ' = Tail(notifQ)
  /\ firebaseUser' = NoUser
  /\ loading' = FALSE
  /\ notified' = TRUE
  /\ handled' = TRUE
  /\ UNCHANGED <<quizVars, attemptVars, providerVars, navTimer, regVars, resetVars, lastOutcome, ops, store,
                 idpUser, hpc, req, loginPc, loginRes, logoutPc, logoutRes,
                 location, navCount, navPending, unloaded>>

\* onAuthStateChanged(auth, async (user) => ...) with user = null.
AuthChangedNull ==
  /\ ~unloaded
  /\ listeners > 0
  /\ notifQ # <<>> /\ Head(notifQ) = NoUser
  /\ notifQ' = Tail(notifQ)
  /\ firebaseUser' = NoUser
  /\ store' = NoToken
  /\ loading' = FALSE
  /\ notified' = TRUE
  /\ handled' = TRUE
  /\ UNCHANGED <<quizVars, attemptVars, providerVars, navTimer, regVars, resetVars, lastOutcome, ops, idpUser, hpc, req, loginPc, loginRes, logoutPc,
                 logoutRes, location, navCount, navPending, unloaded>>

\* The callback with a user, up to await user.getIdToken(true).
AuthChangedUser(h) ==
  /\ ~unloaded
  /\ listeners > 0
  /\ notifQ # <<>> /\ Head(notifQ) # NoUser
  /\ FreeHandler(h)
  /\ notifQ' = Tail(notifQ)
  /\ firebaseUser' = Head(notifQ)
  /\ hpc' = [hpc EXCEPT ![h] = "mint"]
  /\ notified' = TRUE
  /\ UNCHANGED <<quizVars, attemptVars, providerVars, navTimer, regVars, resetVars, lastOutcome, ops, store, idpUser, loading, handled, req, loginPc,
                 loginRes, logoutPc, logoutRes, location, navCount,
                 navPending, unloaded>>

\* The mint resolved: store it, then await api.get('/users/me').
HandlerMintOk(h, r) ==
  /\ ~unloaded
  /\ hpc[h] = "mint"
  /\ FreeReq(r)
  /\ store' = Fresh
  /\ hpc' = [hpc EXCEPT ![h] = "verify"]
  /\ req' = [req EXCEPT ![r] = ReqStarted(h, Fresh)]
  /\ UNCHANGED <<quizVars, attemptVars, providerVars, navTimer, regVars, resetVars, lastOutcome, ops, idpUser, notifQ, firebaseUser, loading, notified, handled,
                 loginPc, loginRes, logoutPc, logoutRes, location, navCount,
                 navPending, unloaded>>

\* Mutant of HandlerMintFail: setLoading(false) is skipped when the mint
\* rejects.
HandlerMintFail_KeepsLoading(h) ==
  /\ ~unloaded
  /\ hpc[h] = "mint"
  /\ hpc' = [hpc EXCEPT ![h] = "free"]
  /\ handled' = TRUE
  /\ UNCHANGED <<quizVars, attemptVars, providerVars, navTimer, regVars, resetVars, lastOutcome, ops, store, idpUser, notifQ, firebaseUser, loading,
                 notified, req, loginPc, loginRes, logoutPc, logoutRes,
                 location, navCount, navPending, unloaded>>

\* Mutant of HandlerMintFail: a failed mint logs the user out.
HandlerMintFail_LogsOut(h) ==
  /\ ~unloaded
  /\ hpc[h] = "mint"
  /\ hpc' = [hpc EXCEPT ![h] = "free"]
  /\ store' = NoToken
  /\ firebaseUser' = NoUser
  /\ loading' = FALSE
  /\ handled' = TRUE
  /\ UNCHANGED <<quizVars, attemptVars, providerVars, navTimer, regVars, resetVars, lastOutcome, ops, idpUser,
                 notifQ, notified, req, loginPc, loginRes, logoutPc,
                 logoutRes, location, navCount, navPending, unloaded>>

\* The mint rejected: logged, the store is left alone, setLoading(false).
HandlerMintFail(h) ==
  /\ ~unloaded
  /\ hpc[h] = "mint"
  /\ hpc' = [hpc EXCEPT ![h] = "free"]
  /\ loading' = FALSE
  /\ handled' = TRUE
  /\ UNCHANGED <<quizVars, attemptVars, providerVars, navTimer, regVars, resetVars, lastOutcome, ops, store, idpUser, notifQ, firebaseUser, notified, req,
                 loginPc, loginRes, logoutPc, logoutRes, location, navCount,
                 navPending, unloaded>>

\* The subscription's error callback: setLoading(false), which changes
\* nothing once loading is false.
AuthStateError ==
  /\ ~unloaded
  /\ listeners > 0
  /\ loading
  /\ loading' = FALSE
  /\ handled' = TRUE
  /\ UNCHANGED <<quizVars, attemptVars, providerVars, navTimer, regVars, resetVars, lastOutcome, ops, store, idpUser, notifQ, firebaseUser, notified, hpc,
                 req, loginPc, loginRes, logoutPc, logoutRes, location,
                 navCount, navPending, unloaded>>

\* ------------------------------------------------ the request pipeline
\* A component calls api.<verb>(...). The components that do are the routes
\* wrapped in ProtectedRoute, rendered once loading is false and
\* isAuthenticated is true.
AppRequest(r) ==
  /\ ~unloaded
  /\ Shown = "children"
  /\ ops < MaxOps
  /\ ops' = ops + 1
  /\ FreeReq(r)
  /\ req' = [req EXCEPT ![r] = ReqStarted(0, store)]
  /\ UNCHANGED <<quizVars, attemptVars, providerVars, navTimer, regVars, resetVars, lastOutcome, store, idpUser, notifQ, firebaseUser, loading,
                 notified, handled, hpc, loginPc, loginRes, logoutPc,
                 logoutRes, location, navCount, navPending, unloaded>>

\* Mutant of ReqMintOk: the header is taken from the store as it was.
ReqMintOk_SendsStored(r) ==
  /\ ~unloaded
  /\ req[r].pc = "mint"
  /\ store' = Fresh
  /\ req' = [req EXCEPT ![r] = [@ EXCEPT !.pc = "sent",
                                         !.hdr = CachedHeader(store),
                                         !.how = "fresh"]]
  /\ UNCHANGED <<quizVars, attemptVars, providerVars, navTimer, regVars, resetVars, lastOutcome, ops, idpUser,
                 notifQ, firebaseUser, loading, notified, handled, hpc,
                 loginPc, loginRes, logoutPc, logoutRes, location, navCount,
                 navPending, unloaded>>

\* Mutant of ReqMintOk: what is written to the store is the credential with a
\* character added.
ReqMintOk_StoresPadded(r) ==
  /\ ~unloaded
  /\ req[r].pc = "mint"
  /\ store' = Append(Fresh, WS)
  /\ req' = [req EXCEPT ![r] = [@ EXCEPT !.pc = "sent",
                                         !.hdr = Trim(Fresh),
                                         !.how = "fresh"]]
  /\ UNCHANGED <<quizVars, attemptVars, providerVars, navTimer, regVars,
                 resetVars, lastOutcome, ops, idpUser, notifQ, firebaseUser,
                 loading, notified, handled, hpc, loginPc, loginRes, logoutPc,
                 logoutRes, location, navCount, navPending, unloaded>>

\* Request interceptor, getIdToken(true) resolved: the fresh credential is
\* attached (trimmed) and written to the store.
ReqMintOk(r) ==
  /\ ~unloaded
  /\ req[r].pc = "mint"
  /\ store' = Fresh
  /\ req' = [req EXCEPT ![r] = [@ EXCEPT !.pc = "sent",
                                         !.hdr = Trim(Fresh),
                                         !.how = "fresh"]]
  /\ UNCHANGED <<quizVars, attemptVars, providerVars, navTimer, regVars, resetVars, lastOutcome, ops, idpUser, notifQ, firebaseUser, loading, notified, handled,
                 hpc, loginPc, loginRes, logoutPc, logoutRes, location,
                 navCount, navPending, unloaded>>

\* Mutant of ReqMintFail: a component's call with nothing to attach is given
\* up and rejected.
ReqMintFail_Drops(r) ==
  /\ ~unloaded
  /\ req[r].pc = "mint"
  /\ IF store = NoToken /\ req[r].owner = 0
     THEN /\ req' = Compact(req, r)
          /\ lastOutcome' = Rejected(TokenError)
     ELSE /\ req' = [req EXCEPT ![r] = [@ EXCEPT !.pc = "sent",
                                                !.hdr = CachedHeader(store),
                                                !.how = IF store # NoToken
                                                        THEN "fallback"
                                                        ELSE "bare"]]
          /\ UNCHANGED lastOutcome
  /\ UNCHANGED <<quizVars, attemptVars, providerVars, navTimer, regVars, resetVars, ops, store, idpUser, notifQ,
                 firebaseUser, loading, notified, handled, hpc, loginPc,
                 loginRes, logoutPc, logoutRes, location, navCount,
                 navPending, unloaded>>

\* Request interceptor, getIdToken(true) rejected: fall back to the cached
\* credential, if any; the request is sent either way.
ReqMintFail(r) ==
  /\ ~unloaded
  /\ req[r].pc = "mint"
  /\ req' = [req EXCEPT ![r] = [@ EXCEPT !.pc = "sent",
                                         !.hdr = CachedHeader(store),
                                         !.how = IF store # NoToken
                                                 THEN "fallback" ELSE "bare"]]
  /\ UNCHANGED <<quizVars, attemptVars, providerVars, navTimer, regVars, resetVars, lastOutcome, ops, store, idpUser, notifQ, firebaseUser, loading,
                 notified, handled, hpc, loginPc, loginRes, logoutPc,
                 logoutRes, location, navCount, navPending, unloaded>>

\* Mutant of ResponseRejected: the error is swallowed and the call resolves.
ResponseRejected_Swallowed(error) == Resolved("response")

\* return Promise.reject(error) at the end of the response interceptor's
\* error handler.
ResponseRejected(error) == Rejected(error)

\* The call settles with outcome. A call made by the subscription callback
\* resumes that callback, which catches a rejection and ends with
\* setLoading(false) whatever the outcome; a component's call settles for the
\* component.
Settle(r, outcome) ==
  /\ IF req[r].owner # 0
     THEN /\ UNCHANGED lastOutcome
          /\ hpc' = [hpc EXCEPT ![req[r].owner] = "free"]
          /\ loading' = FALSE
          /\ handled' = TRUE
     ELSE /\ lastOutcome' = outcome
          /\ UNCHANGED <<hpc, loading, handled>>
  /\ req' = Compact(req, r)

\* Response interceptor, success branch: the response is returned.
RespSuccess(r) ==
  /\ ~unloaded
  /\ req[r].pc = "sent"
  /\ Settle(r, Resolved("response"))
  /\ UNCHANGED <<quizVars, attemptVars, providerVars, navTimer, regVars, resetVars, ops, store, idpUser, notifQ, firebaseUser, notified,
                 loginPc, loginRes, logoutPc, logoutRes, location, navCount,
                 navPending, unloaded>>

\* Mutant of RespUnauthorized: the handler also signs the principal out.
RespUnauthorized_SignsOut(r) ==
  /\ ~unloaded
  /\ req[r].pc = "sent"
  /\ store' = NoToken
  /\ idpUser' = NoUser
  /\ notifQ' = Notify(NoUser)
  /\ IF ~IncludesLogin(location)
     THEN navCount' = navCount + 1 /\ navPending' = TRUE
     ELSE UNCHANGED <<navCount, navPending>>
  /\ Settle(r, ResponseRejected(Unauthorized))
  /\ UNCHANGED <<quizVars, attemptVars, providerVars, navTimer, regVars,
                 resetVars, ops, firebaseUser, notified, loginPc, loginRes,
                 logoutPc, logoutRes, location, unloaded>>

\* Response interceptor, error.response.status === 401.
RespUnauthorized(r) ==
  /\ ~unloaded
  /\ req[r].pc = "sent"
  /\ store' = NoToken
  /\ IF ~IncludesLogin(location)
     THEN navCount' = navCount + 1 /\ navPending' = TRUE
     ELSE UNCHANGED <<navCount, navPending>>
  /\ Settle(r, ResponseRejected(Unauthorized))
  /\ UNCHANGED <<quizVars, attemptVars, providerVars, navTimer, regVars, resetVars, ops, idpUser, notifQ,
                 firebaseUser, notified, loginPc, loginRes, logoutPc,
                 logoutRes, location, unloaded>>

\* Mutant of RespError: every failure invalidates the session.
RespError_Invalidates(r, e) ==
  /\ ~unloaded
  /\ req[r].pc = "sent"
  /\ e \in OtherErrors
  /\ store' = NoToken
  /\ IF ~IncludesLogin(location)
     THEN navCount' = navCount + 1 /\ navPending' = TRUE
     ELSE UNCHANGED <<navCount, navPending>>
  /\ Settle(r, ResponseRejected(e))
  /\ UNCHANGED <<quizVars, attemptVars, providerVars, navTimer, regVars, resetVars, ops, idpUser, notifQ,
                 firebaseUser, notified, loginPc, loginRes, logoutPc,
                 logoutRes, location, unloaded>>

\* Response interceptor, any other failure (a timeout, another status, a
\* network error): logged and rejected.
RespError(r, e) ==
  /\ ~unloaded
  /\ req[r].pc = "sent"
  /\ e \in OtherErrors
  /\ Settle(r, ResponseRejected(e))
  /\ UNCHANGED <<quizVars, attemptVars, providerVars, navTimer, regVars, resetVars, ops, store, idpUser, notifQ, firebaseUser, notified,
                 loginPc, loginRes, logoutPc, logoutRes, location, navCount,
                 navPending, unloaded>>

\* The navigation started by window.location.href = '/login' commits: the
\* document, and with it every handler of this run, is gone.
PageUnload ==
  /\ ~unloaded
  /\ navPending
  /\ unloaded' = TRUE
  /\ location' = LoginPath
  /\ notifQ' = <<>>
  /\ hpc' = [h \in Handlers |-> "free"]
  /\ req' = [r \in Reqs |-> IdleReq]
  /\ loginPc' = "idle" /\ loginRes' = NoResult
  /\ logoutPc' = "idle" /\ logoutRes' = NoResult
  /\ registerPc' = "idle" /\ registerRes' = NoResult
  /\ resetPc' = "idle" /\ resetRes' = NoResult
  /\ lastOutcome' = NoResult
  /\ navTimer' = FALSE
  /\ UNCHANGED <<quizVars, attemptVars, providerVars, ops, store, idpUser, firebaseUser, loading,
                 notified, handled, navCount, navPending>>

\* ------------------------------------------------------------- routing
\* Login's effect: navigate('/') once currentUser is set.
LoginRedirect ==
  /\ ~unloaded
  /\ ~loading
  /\ location = LoginPath
  /\ firebaseUser # NoUser
  /\ location' = HomePath
  /\ UNCHANGED <<quizVars, attemptVars, providerVars, navTimer, regVars, resetVars, lastOutcome, ops, store, idpUser, notifQ, firebaseUser, loading,
                 notified, handled, hpc, req, loginPc, loginRes, logoutPc,
                 logoutRes, navCount, navPending, unloaded>>

\* ProtectedRoute: <Navigate to="/login" replace /> when !isAuthenticated.
ProtectedRedirect ==
  /\ ~unloaded
  /\ Shown = "navigate"
  /\ location' = LoginPath
  /\ UNCHANGED <<quizVars, attemptVars, providerVars, navTimer, regVars, resetVars, lastOutcome, ops, store, idpUser, notifQ, firebaseUser, loading,
                 notified, handled, hpc, req, loginPc, loginRes, logoutPc,
                 logoutRes, navCount, navPending, unloaded>>

\* ---------------------------------------------------------------- login
\* Login.handleSubmit -> login(email, password), up to the await of
\* signInWithEmailAndPassword in loginWithEmailPassword.
LoginStart ==
  /\ ~unloaded
  /\ ~loading
  /\ ops < MaxOps
  /\ ops' = ops + 1
  /\ location = LoginPath
  /\ loginPc = "idle"
  /\ loginPc' = "signin"
  /\ loginRes' = NoResult
  /\ UNCHANGED <<quizVars, attemptVars, providerVars, navTimer, regVars, resetVars, lastOutcome, store, idpUser, notifQ, firebaseUser, loading,
                 notified, handled, hpc, req, logoutPc, logoutRes, location,
                 navCount, navPending, unloaded>>

\* Mutant of LoginSignInFail: the failure path removes the credential.
LoginSignInFail_ClearsStore(e) ==
  /\ ~unloaded
  /\ loginPc = "signin"
  /\ loginPc' = "idle"
  /\ loginRes' = [kind |-> "rejected", val |-> e]
  /\ store' = NoToken
  /\ UNCHANGED <<quizVars, attemptVars, providerVars, navTimer, regVars, resetVars, lastOutcome, ops, idpUser, notifQ, firebaseUser, loading,
                 notified, handled, hpc, req, logoutPc, logoutRes, location,
                 navCount, navPending, unloaded>>

\* The provider rejects the sign-in: loginWithEmailPassword rethrows, and so
\* does login.
LoginSignInFail(e) ==
  /\ ~unloaded
  /\ loginPc = "signin"
  /\ loginPc' = "idle"
  /\ loginRes' = [kind |-> "rejected", val |-> e]
  /\ UNCHANGED <<quizVars, attemptVars, providerVars, navTimer, regVars, resetVars, lastOutcome, ops, store, idpUser, notifQ, firebaseUser, loading,
                 notified, handled, hpc, req, logoutPc, logoutRes, location,
                 navCount, navPending, unloaded>>

\* The provider accepts: the principal is set (listeners are notified when
\* it changed) and loginWithEmailPassword awaits getIdToken(true).
LoginSignInOk ==
  /\ ~unloaded
  /\ loginPc = "signin"
  /\ idpUser' = U1
  /\ notifQ' = Notify(U1)
  /\ loginPc' = "mint1"
  /\ UNCHANGED <<quizVars, attemptVars, providerVars, navTimer, regVars, resetVars, lastOutcome, ops, store, firebaseUser, loading, notified, handled,
                 hpc, req, loginRes, logoutPc, logoutRes, location, navCount,
                 navPending, unloaded>>

\* loginWithEmailPassword's mint resolved: stored; the user is returned and
\* login awaits its own getIdToken(true).
LoginMint1Ok ==
  /\ ~unloaded
  /\ loginPc = "mint1"
  /\ store' = Fresh
  /\ loginPc' = "mint2"
  /\ UNCHANGED <<quizVars, attemptVars, providerVars, navTimer, regVars, resetVars, lastOutcome, ops, idpUser, notifQ, firebaseUser, loading, notified, handled,
                 hpc, req, loginRes, logoutPc, logoutRes, location, navCount,
                 navPending, unloaded>>

\* loginWithEmailPassword's mint rejected: logged and swallowed.
LoginMint1Fail ==
  /\ ~unloaded
  /\ loginPc = "mint1"
  /\ loginPc' = "mint2"
  /\ UNCHANGED <<quizVars, attemptVars, providerVars, navTimer, regVars, resetVars, lastOutcome, ops, store, idpUser, notifQ, firebaseUser, loading,
                 notified, handled, hpc, req, loginRes, logoutPc, logoutRes,
                 location, navCount, navPending, unloaded>>

\* Mutant of LoginMint2Ok: login resolves to true without writing.
LoginMint2Ok_NoWrite ==
  /\ ~unloaded
  /\ loginPc = "mint2"
  /\ loginPc' = "idle"
  /\ loginRes' = Resolved("true")
  /\ navTimer' = TRUE
  /\ UNCHANGED <<quizVars, attemptVars, providerVars, regVars, resetVars, lastOutcome, ops, store,
                 idpUser, notifQ, firebaseUser, loading, notified, handled,
                 hpc, req, logoutPc, logoutRes, location, navCount,
                 navPending, unloaded>>

\* Mutant of LoginMint2Ok: login also sets the provider's user state.
LoginMint2Ok_SetsUser ==
  /\ ~unloaded
  /\ loginPc = "mint2"
  /\ store' = Fresh
  /\ loginPc' = "idle"
  /\ loginRes' = Resolved("true")
  /\ firebaseUser' = idpUser
  /\ navTimer' = TRUE
  /\ UNCHANGED <<quizVars, attemptVars, providerVars, regVars, resetVars, lastOutcome, ops, idpUser,
                 notifQ, loading, notified, handled, hpc, req, logoutPc,
                 logoutRes, location, navCount, navPending, unloaded>>

\* login's mint resolved: stored, login resolves to true, and Login's
\* handleSubmit sets the timer that navigates to '/'.
LoginMint2Ok ==
  /\ ~unloaded
  /\ loginPc = "mint2"
  /\ store' = Fresh
  /\ loginPc' = "idle"
  /\ loginRes' = [kind |-> "resolved", val |-> "true"]
  /\ navTimer' = TRUE
  /\ UNCHANGED <<quizVars, attemptVars, providerVars, regVars, resetVars, lastOutcome, ops, idpUser, notifQ, firebaseUser, loading, notified, handled,
                 hpc, req, logoutPc, logoutRes, location, navCount,
                 navPending, unloaded>>

\* The timer set by Login.handleSubmit fires: navigate('/', {replace: true}).
LoginNavigate ==
  /\ ~unloaded
  /\ navTimer
  /\ navTimer' = FALSE
  /\ location' = HomePath
  /\ UNCHANGED <<quizVars, attemptVars, providerVars, regVars, resetVars,
                 lastOutcome, ops, store, idpUser, notifQ, firebaseUser,
                 loading, notified, handled, hpc, req, loginPc, loginRes,
                 logoutPc, logoutRes, navCount, navPending, unloaded>>

\* login's mint rejected: tokenError is thrown, caught and rethrown.
LoginMint2Fail ==
  /\ ~unloaded
  /\ loginPc = "mint2"
  /\ loginPc' = "idle"
  /\ loginRes' = [kind |-> "rejected", val |-> TokenError]
  /\ UNCHANGED <<quizVars, attemptVars, providerVars, navTimer, regVars, resetVars, lastOutcome, ops, store, idpUser, notifQ, firebaseUser, loading,
                 notified, handled, hpc, req, logoutPc, logoutRes, location,
                 navCount, navPending, unloaded>>

\* ------------------------------------------------------------- register
\* register(email, password, displayName), called from the registration page,
\* up to the await of createUserWithEmailAndPassword.
RegisterStart ==
  /\ ~unloaded
  /\ ~loading
  /\ ops < MaxOps
  /\ ops' = ops + 1
  /\ location = RegisterPath
  /\ registerPc = "idle"
  /\ registerPc' = "signup"
  /\ registerRes' = NoResult
  /\ UNCHANGED <<quizVars, attemptVars, providerVars, navTimer, resetVars, lastOutcome, store, idpUser, notifQ,
                 firebaseUser, loading, notified, handled, hpc, req, loginPc,
                 loginRes, logoutPc, logoutRes, location, navCount,
                 navPending, unloaded>>

\* The provider rejects the sign-up: registerWithEmailPassword rethrows, and
\* so does register.
RegisterSignUpFail(e) ==
  /\ ~unloaded
  /\ registerPc = "signup"
  /\ registerPc' = "idle"
  /\ registerRes' = Rejected(e)
  /\ UNCHANGED <<quizVars, attemptVars, providerVars, navTimer, resetVars, lastOutcome, ops, store, idpUser,
                 notifQ, firebaseUser, loading, notified, handled, hpc, req,
                 loginPc, loginRes, logoutPc, logoutRes, location, navCount,
                 navPending, unloaded>>

\* The provider accepts: the new principal is signed in; with a display name
\* updateProfile is awaited, without one getIdToken(true).
RegisterSignUpOk(displayName) ==
  /\ ~unloaded
  /\ registerPc = "signup"
  /\ idpUser' = U1
  /\ notifQ' = Notify(U1)
  /\ registerPc' = IF displayName THEN "profile" ELSE "mint1"
  /\ UNCHANGED <<quizVars, attemptVars, providerVars, navTimer, resetVars, lastOutcome, ops, store, firebaseUser,
                 loading, notified, handled, hpc, req, loginPc, loginRes,
                 logoutPc, logoutRes, registerRes, location, navCount,
                 navPending, unloaded>>

\* updateProfile resolved: registerWithEmailPassword awaits getIdToken(true).
RegisterProfileOk ==
  /\ ~unloaded
  /\ registerPc = "profile"
  /\ registerPc' = "mint1"
  /\ UNCHANGED <<quizVars, attemptVars, providerVars, navTimer, resetVars, lastOutcome, ops, store, idpUser,
                 notifQ, firebaseUser, loading, notified, handled, hpc, req,
                 loginPc, loginRes, logoutPc, logoutRes, registerRes,
                 location, navCount, navPending, unloaded>>

\* updateProfile rejected: rethrown by registerWithEmailPassword and register.
RegisterProfileFail ==
  /\ ~unloaded
  /\ registerPc = "profile"
  /\ registerPc' = "idle"
  /\ registerRes' = Rejected(ProfileError)
  /\ UNCHANGED <<quizVars, attemptVars, providerVars, navTimer, resetVars, lastOutcome, ops, store, idpUser,
                 notifQ, firebaseUser, loading, notified, handled, hpc, req,
                 loginPc, loginRes, logoutPc, logoutRes, location, navCount,
                 navPending, unloaded>>

\* registerWithEmailPassword's mint resolved: stored; the user is returned
\* and register awaits user.getIdToken().
RegisterMint1Ok ==
  /\ ~unloaded
  /\ registerPc = "mint1"
  /\ store' = Fresh
  /\ registerPc' = "mint2"
  /\ UNCHANGED <<quizVars, attemptVars, providerVars, navTimer, resetVars, lastOutcome, ops, idpUser, notifQ,
                 firebaseUser, loading, notified, handled, hpc, req, loginPc,
                 loginRes, logoutPc, logoutRes, registerRes, location,
                 navCount, navPending, unloaded>>

\* registerWithEmailPassword's mint rejected: logged and swallowed.
RegisterMint1Fail ==
  /\ ~unloaded
  /\ registerPc = "mint1"
  /\ registerPc' = "mint2"
  /\ UNCHANGED <<quizVars, attemptVars, providerVars, navTimer, resetVars, lastOutcome, ops, store, idpUser,
                 notifQ, firebaseUser, loading, notified, handled, hpc, req,
                 loginPc, loginRes, logoutPc, logoutRes, registerRes,
                 location, navCount, navPending, unloaded>>

\* user.getIdToken() without forceRefresh: the credential the provider holds
\* when it has not expired (one the client may already have), a new one
\* otherwise.
Unforced == {Fresh} \cup (InUse \ {NoToken})

\* register's mint resolved: stored, register resolves to true.
RegisterMint2Ok(token) ==
  /\ ~unloaded
  /\ registerPc = "mint2"
  /\ token \in Unforced
  /\ store' = token
  /\ registerPc' = "idle"
  /\ registerRes' = Resolved("true")
  /\ UNCHANGED <<quizVars, attemptVars, providerVars, navTimer, resetVars, lastOutcome, ops, idpUser, notifQ,
                 firebaseUser, loading, notified, handled, hpc, req, loginPc,
                 loginRes, logoutPc, logoutRes, location, navCount,
                 navPending, unloaded>>

\* register's mint rejected: tokenError is logged and not rethrown; register
\* falls through to return false.
RegisterMint2Fail ==
  /\ ~unloaded
  /\ registerPc = "mint2"
  /\ registerPc' = "idle"
  /\ registerRes' = Resolved("false")
  /\ UNCHANGED <<quizVars, attemptVars, providerVars, navTimer, resetVars, lastOutcome, ops, store, idpUser,
                 notifQ, firebaseUser, loading, notified, handled, hpc, req,
                 loginPc, loginRes, logoutPc, logoutRes, location, navCount,
                 navPending, unloaded>>

\* ------------------------------------------------------- password reset
\* resetPassword(email) of the context (handleResetPassword), called from the
\* reset page, up to the await of sendPasswordResetEmail.
handleResetPassword ==
  /\ ~unloaded
  /\ ~loading
  /\ ops < MaxOps
  /\ ops' = ops + 1
  /\ location = ResetPasswordPath
  /\ resetPc = "idle"
  /\ resetPc' = "sending"
  /\ resetRes' = NoResult
  /\ UNCHANGED <<quizVars, attemptVars, providerVars, navTimer, regVars, lastOutcome, store, idpUser, notifQ,
                 firebaseUser, loading, notified, handled, hpc, req, loginPc,
                 loginRes, logoutPc, logoutRes, location, navCount,
                 navPending, unloaded>>

\* sendPasswordResetEmail resolved: true is returned.
ResetPasswordOk ==
  /\ ~unloaded
  /\ resetPc = "sending"
  /\ resetPc' = "idle"
  /\ resetRes' = Resolved("true")
  /\ UNCHANGED <<quizVars, attemptVars, providerVars, navTimer, regVars, lastOutcome, ops, store, idpUser, notifQ,
                 firebaseUser, loading, notified, handled, hpc, req, loginPc,
                 loginRes, logoutPc, logoutRes, location, navCount,
                 navPending, unloaded>>

\* sendPasswordResetEmail rejected: rethrown twice.
ResetPasswordFail(e) ==
  /\ ~unloaded
  /\ resetPc = "sending"
  /\ resetPc' = "idle"
  /\ resetRes' = Rejected(e)
  /\ UNCHANGED <<quizVars, attemptVars, providerVars, navTimer, regVars, lastOutcome, ops, store, idpUser, notifQ,
                 firebaseUser, loading, notified, handled, hpc, req, loginPc,
                 loginRes, logoutPc, logoutRes, location, navCount,
                 navPending, unloaded>>

\* --------------------------------------------------------------- logout
\* Dashboard/Layout handleLogout: logout() (not awaited), navigate('/login').
\* logout runs up to the await of signOut(auth) in logoutFirebase.
handleLogout ==
  /\ ~unloaded
  /\ Shown = "children"
  /\ ops < MaxOps
  /\ ops' = ops + 1
  /\ logoutPc = "idle"
  /\ logoutPc' = "signout"
  /\ logoutRes' = NoResult
  /\ location' = LoginPath
  /\ UNCHANGED <<quizVars, attemptVars, providerVars, navTimer, regVars, resetVars, lastOutcome, store, idpUser, notifQ, firebaseUser, loading,
                 notified, handled, hpc, req, loginPc, loginRes, navCount,
                 navPending, unloaded>>

\* signOut resolved: logoutFirebase removes the credential and returns true.
LogoutSignOutOk ==
  /\ ~unloaded
  /\ logoutPc = "signout"
  /\ idpUser' = NoUser
  /\ notifQ' = Notify(NoUser)
  /\ store' = NoToken
  /\ logoutPc' = "clear"
  /\ UNCHANGED <<quizVars, attemptVars, providerVars, navTimer, regVars, resetVars, lastOutcome, ops, firebaseUser, loading, notified, handled, hpc, req,
                 loginPc, loginRes, logoutRes, location, navCount,
                 navPending, unloaded>>

\* logout resumes after await logoutFirebase(): removes the credential again
\* and resolves to true.
LogoutClear ==
  /\ ~unloaded
  /\ logoutPc = "clear"
  /\ store' = NoToken
  /\ logoutPc' = "idle"
  /\ logoutRes' = [kind |-> "resolved", val |-> "true"]
  /\ UNCHANGED <<quizVars, attemptVars, providerVars, navTimer, regVars, resetVars, lastOutcome, ops, idpUser, notifQ, firebaseUser, loading, notified,
                 handled, hpc, req, loginPc, loginRes, location, navCount,
                 navPending, unloaded>>

\* Mutant of LogoutSignOutFail: logout rethrows instead of resolving to false.
LogoutSignOutFail_Rethrows ==
  /\ ~unloaded
  /\ logoutPc = "signout"
  /\ logoutPc' = "idle"
  /\ logoutRes' = [kind |-> "rejected", val |-> TokenError]
  /\ UNCHANGED <<quizVars, attemptVars, providerVars, navTimer, regVars, resetVars, lastOutcome, ops, store, idpUser, notifQ, firebaseUser, loading,
                 notified, handled, hpc, req, loginPc, loginRes, location,
                 navCount, navPending, unloaded>>

\* signOut rejected: logoutFirebase rethrows; logout's catch logs it and
\* resolves to false. Neither removeItem is reached.
LogoutSignOutFail ==
  /\ ~unloaded
  /\ logoutPc = "signout"
  /\ logoutPc' = "idle"
  /\ logoutRes' = [kind |-> "resolved", val |-> "false"]
  /\ UNCHANGED <<quizVars, attemptVars, providerVars, navTimer, regVars, resetVars, lastOutcome, ops, store, idpUser, notifQ, firebaseUser, loading,
                 notified, handled, hpc, req, loginPc, loginRes, location,
                 navCount, navPending, unloaded>>

\* ----------------------------------------------------------------- Next
AuthNext ==
  \/ AuthChangedNull
  \/ \E h \in Handlers : AuthChangedUser(h)
  \/ \E h \in Handlers, r \in Reqs : HandlerMintOk(h, r)
  \/ \E h \in Handlers : HandlerMintFail(h)
  \/ AuthStateError
  \/ \E r \in Reqs : AppRequest(r)
  \/ \E r \in Reqs : ReqMintOk(r)
  \/ \E r \in Reqs : ReqMintFail(r)
  \/ \E r \in Reqs : RespSuccess(r)
  \/ \E r \in Reqs : RespUnauthorized(r)
  \/ \E r \in Reqs, e \in OtherErrors : RespError(r, e)
  \/ PageUnload
  \/ LoginRedirect
  \/ ProtectedRedirect
  \/ LoginStart
  \/ \E e \in SignInErrors : LoginSignInFail(e)
  \/ LoginSignInOk
  \/ LoginMint1Ok
  \/ LoginMint1Fail
  \/ LoginMint2Ok
  \/ LoginMint2Fail
  \/ LoginNavigate
  \/ RegisterStart
  \/ \E e \in SignUpErrors : RegisterSignUpFail(e)
  \/ \E displayName \in BOOLEAN : RegisterSignUpOk(displayName)
  \/ RegisterProfileOk
  \/ RegisterProfileFail
  \/ RegisterMint1Ok
  \/ RegisterMint1Fail
  \/ \E token \in Unforced : RegisterMint2Ok(token)
  \/ RegisterMint2Fail
  \/ handleResetPassword
  \/ ResetPasswordOk
  \/ \E e \in ResetErrors : ResetPasswordFail(e)
  \/ handleLogout
  \/ LogoutSignOutOk
  \/ LogoutClear
  \/ LogoutSignOutFail

Next == AuthNext

Spec == Init /\ [][Next]_vars

\* ------------------------------------------------- provider lifecycle
\* AuthProvider before its effect has run: nothing is subscribed.
LifecycleInit ==
  /\ store \in {NoToken, Token(1)}
  /\ idpUser \in {NoUser, U1}
  /\ notifQ = <<>>
  /\ firebaseUser = NoUser
  /\ loading = TRUE
  /\ notified = FALSE
  /\ handled = FALSE
  /\ hpc = [h \in Handlers |-> "free"]
  /\ req = [r \in Reqs |-> IdleReq]
  /\ loginPc = "idle" /\ loginRes = NoResult
  /\ logoutPc = "idle" /\ logoutRes = NoResult
  /\ registerPc = "idle" /\ registerRes = NoResult
  /\ resetPc = "idle" /\ resetRes = NoResult
  /\ lastOutcome = NoResult
  /\ navTimer = FALSE
  /\ mounted = "no" /\ listeners = 0 /\ unsubscribed = 0
  /\ location \in Paths
  /\ navCount = 0
  /\ navPending = FALSE
  /\ unloaded = FALSE
  /\ ops = 0
  /\ QuizIdle
  /\ AttemptIdle

\* The effect with the empty dependency list runs after the first render:
\* onAuthStateChanged registers the listener, which is then told the current
\* principal.
ProviderMount ==
  /\ ~unloaded
  /\ mounted = "no"
  /\ mounted' = "yes"
  /\ listeners' = listeners + 1
  /\ notifQ' = <<idpUser>>
  /\ UNCHANGED <<quizVars, attemptVars, regVars, resetVars, lastOutcome,
                 navTimer, unsubscribed, ops, store, idpUser, firebaseUser,
                 loading, notified, handled, hpc, req, loginPc, loginRes,
                 logoutPc, logoutRes, location, navCount, navPending,
                 unloaded>>

\* Mutant of ProviderTeardown: the cleanup does not call unsubscribe.
ProviderTeardown_KeepsListener ==
  /\ ~unloaded
  /\ mounted = "yes"
  /\ mounted' = "gone"
  /\ UNCHANGED <<quizVars, attemptVars, regVars, resetVars, lastOutcome,
                 navTimer, listeners, unsubscribed, ops, store, idpUser,
                 notifQ, firebaseUser, loading, notified, handled, hpc, req,
                 loginPc, loginRes, logoutPc, logoutRes, location, navCount,
                 navPending, unloaded>>

\* AuthProvider unmounts: the effect's cleanup calls unsubscribe(); callbacks
\* that are due are not made any more, those already running go on.
ProviderTeardown ==
  /\ ~unloaded
  /\ mounted = "yes"
  /\ mounted' = "gone"
  /\ listeners' = listeners - 1
  /\ unsubscribed' = unsubscribed + 1
  /\ UNCHANGED <<quizVars, attemptVars, regVars, resetVars, lastOutcome,
                 navTimer, ops, store, idpUser, notifQ, firebaseUser,
                 loading, notified, handled, hpc, req, loginPc, loginRes,
                 logoutPc, logoutRes, location, navCount, navPending,
                 unloaded>>

LifecycleNext ==
  \/ ProviderMount
  \/ ProviderTeardown
  \/ AuthChangedNull
  \/ \E h \in Handlers : AuthChangedUser(h)
  \/ \E h \in Handlers, r \in Reqs : HandlerMintOk(h, r)
  \/ \E h \in Handlers : HandlerMintFail(h)
  \/ AuthStateError
  \/ \E r \in Reqs : ReqMintOk(r)
  \/ \E r \in Reqs : ReqMintFail(r)
  \/ \E r \in Reqs : RespSuccess(r)
  \/ \E r \in Reqs : RespUnauthorized(r)
  \/ \E r \in Reqs, e \in OtherErrors : RespError(r, e)
  \/ PageUnload

\* One lifetime of AuthProvider, from before its effect to after its unmount,
\* with no operation of the user interface.
LifecycleSpec == LifecycleInit /\ [][LifecycleNext]_vars

\* ------------------------------------------------------- practice quiz
\* The authenticated client at rest while a practice quiz is taken.
AuthQuiet ==
  /\ store = Token(1)
  /\ idpUser = U1
  /\ notifQ = <<>>
  /\ firebaseUser = U1
  /\ loading = FALSE
  /\ notified = TRUE
  /\ handled = TRUE
  /\ hpc = [h \in Handlers |-> "free"]
  /\ req = [r \in Reqs |-> IdleReq]
  /\ loginPc = "idle" /\ loginRes = NoResult
  /\ logoutPc = "idle" /\ logoutRes = NoResult
  /\ registerPc = "idle" /\ registerRes = NoResult
  /\ resetPc = "idle" /\ resetRes = NoResult
  /\ lastOutcome = NoResult
  /\ navTimer = FALSE
  /\ mounted = "yes" /\ listeners = 1 /\ unsubscribed = 0
  /\ location = HomePath
  /\ navCount = 0
  /\ navPending = FALSE
  /\ unloaded = FALSE
  /\ ops = 0

\* Content has been generated and the effect on generatedContent has reset
\* the quiz state.
QuizInit ==
  /\ AuthQuiet
  /\ generatedContent \in {<<c>> : c \in Contents}
  /\ selectedAnswers = <<>>
  /\ quizSubmitted = FALSE
  /\ quizResults = <<>>
  /\ isSubmittingQuiz = FALSE
  /\ posting = <<>>
  /\ isGenerating = FALSE
  /\ dashboardError = NoError
  /\ AttemptIdle

IsQuiz == generatedContent # <<>> /\ generatedContent[1].type = "questions"

\* Mutant of handleAnswerSelect: a click is taken after submission too.
handleAnswerSelect_AfterSubmit(i, option) ==
  /\ selectedAnswers' =
       [k \in DOMAIN selectedAnswers \cup {i} |->
          IF k = i THEN CharAt0(option) ELSE selectedAnswers[k]]
  /\ UNCHANGED <<authVars, attemptVars, dashboardError, isGenerating, generatedContent,
                 quizSubmitted, quizResults, isSubmittingQuiz, posting>>

\* Click on an option of question i: nothing once the quiz is submitted,
\* otherwise the option's first character is stored.
handleAnswerSelect(i, option) ==
  /\ IF quizSubmitted
     THEN selectedAnswers' = selectedAnswers
     ELSE selectedAnswers' =
            [k \in DOMAIN selectedAnswers \cup {i} |->
               IF k = i THEN CharAt0(option) ELSE selectedAnswers[k]]
  /\ UNCHANGED <<authVars, attemptVars, dashboardError, isGenerating, generatedContent, quizSubmitted, quizResults,
                 isSubmittingQuiz, posting>>

\* handleQuizSubmit up to await api.post('/quizzes/practice/attempt', ...).
handleQuizSubmit ==
  /\ ~isSubmittingQuiz
  /\ IsQuiz
  /\ isSubmittingQuiz' = TRUE
  /\ posting' = <<AttemptData(generatedContent[1].data, selectedAnswers)>>
  /\ UNCHANGED <<authVars, attemptVars, dashboardError, isGenerating, generatedContent, selectedAnswers, quizSubmitted,
                 quizResults>>

\* The attempt was saved: the result is kept and the quiz is submitted.
QuizPostOk ==
  /\ posting # <<>>
  /\ quizResults' = <<[id |-> AttemptId, score |-> posting[1].score,
                       questions |-> posting[1].questions]>>
  /\ quizSubmitted' = TRUE
  /\ isSubmittingQuiz' = FALSE
  /\ posting' = <<>>
  /\ UNCHANGED <<authVars, attemptVars, dashboardError, isGenerating, generatedContent, selectedAnswers>>

\* Mutant of QuizPostFail: the failure path marks the quiz submitted.
QuizPostFail_Submitted ==
  /\ posting # <<>>
  /\ quizSubmitted' = TRUE
  /\ isSubmittingQuiz' = FALSE
  /\ dashboardError' = SubmitError
  /\ posting' = <<>>
  /\ UNCHANGED <<authVars, attemptVars, isGenerating, generatedContent,
                 selectedAnswers, quizResults>>

\* Saving failed: the catch reports it, the finally clears the flag.
QuizPostFail ==
  /\ posting # <<>>
  /\ isSubmittingQuiz' = FALSE
  /\ dashboardError' = SubmitError
  /\ posting' = <<>>
  /\ UNCHANGED <<authVars, attemptVars, isGenerating, generatedContent, selectedAnswers, quizSubmitted,
                 quizResults>>

\* "Try Again", shown with the questions once the quiz is submitted.
handleTryAgain ==
  /\ IsQuiz
  /\ quizSubmitted
  /\ selectedAnswers' = <<>>
  /\ quizSubmitted' = FALSE
  /\ quizResults' = <<>>
  /\ UNCHANGED <<authVars, attemptVars, dashboardError, isGenerating, generatedContent, isSubmittingQuiz, posting>>

QuizNext ==
  \/ \E i \in 1..MaxQuestions, o \in 1..Len(Options) :
       /\ IsQuiz
       /\ i <= Len(generatedContent[1].data)
       /\ handleAnswerSelect(i, generatedContent[1].data[i].options[o])
  \/ handleQuizSubmit
  \/ QuizPostOk
  \/ QuizPostFail
  \/ handleTryAgain

QuizSpec == QuizInit /\ [][QuizNext]_vars

\* ------------------------------------------------- content generation
\* What the generation endpoints return in the model: the scenario's three
\* questions, one question, no question at all, and flashcards.
GeneratedContents ==
  {[type |-> "questions", data |-> ScenarioSet],
   [type |-> "questions", data |-> <<Question(1, <<"A">>)>>],
   [type |-> "questions", data |-> <<>>],
   [type |-> "flashcards", data |-> <<>>]}

\* The dashboard before anything was generated.
ContentInit == AuthQuiet /\ QuizIdle /\ AttemptIdle

\* Dashboard.handleSubmit ("Generate") up to the await of api.post: the
\* content is set to null, which the effect on generatedContent ignores.
handleSubmit ==
  /\ ~isGenerating
  /\ generatedContent' = <<>>
  /\ isGenerating' = TRUE
  /\ dashboardError' = NoError
  /\ UNCHANGED <<authVars, attemptVars, selectedAnswers, quizSubmitted,
                 quizResults, isSubmittingQuiz, posting>>

\* Mutant of GenerateOk: the effect on generatedContent does not reset the
\* quiz.
GenerateOk_KeepsQuiz(c) ==
  /\ isGenerating
  /\ generatedContent' = <<c>>
  /\ isGenerating' = FALSE
  /\ UNCHANGED <<authVars, attemptVars, dashboardError, selectedAnswers, quizSubmitted,
                 quizResults, isSubmittingQuiz, posting>>

\* The generation endpoint answered: the content is set and the effect on
\* generatedContent resets the quiz state.
GenerateOk(c) ==
  /\ isGenerating
  /\ generatedContent' = <<c>>
  /\ isGenerating' = FALSE
  /\ selectedAnswers' = <<>>
  /\ quizSubmitted' = FALSE
  /\ quizResults' = <<>>
  /\ UNCHANGED <<authVars, attemptVars, dashboardError, isSubmittingQuiz, posting>>

\* The generation endpoint failed: the content stays null.
GenerateFail ==
  /\ isGenerating
  /\ isGenerating' = FALSE
  /\ dashboardError' = GenerateError
  /\ UNCHANGED <<authVars, attemptVars, generatedContent, selectedAnswers,
                 quizSubmitted, quizResults, isSubmittingQuiz, posting>>

\* The "Submit Answers" button: rendered while the quiz is not submitted,
\* enabled once every question has a selection and no submission is running.
SubmitClick ==
  /\ IsQuiz
  /\ ~quizSubmitted
  /\ ~(Cardinality(DOMAIN selectedAnswers) < Len(generatedContent[1].data))
  /\ ~isSubmittingQuiz
  /\ handleQuizSubmit

ContentNext ==
  \/ handleSubmit
  \/ \E c \in GeneratedContents : GenerateOk(c)
  \/ GenerateFail
  \/ \E i \in 1..MaxQuestions, o \in 1..Len(Options) :
       /\ IsQuiz
       /\ i <= Len(generatedContent[1].data)
       /\ handleAnswerSelect(i, generatedContent[1].data[i].options[o])
  \/ SubmitClick
  \/ QuizPostOk
  \/ QuizPostFail
  \/ handleTryAgain

\* The dashboard as its user drives it: generating content, answering,
\* submitting through the button, trying again.
ContentSpec == ContentInit /\ [][ContentNext]_vars

\* ------------------------------------------------- the timed quiz
\* Math.max(10 * 60, questions.length * 60)
TimeLimit(n) == IF n * 60 > 10 * 60 THEN n * 60 ELSE 10 * 60

AttemptInit == AuthQuiet /\ QuizIdle /\ AttemptIdle

\* The route of QuizAttempt is opened: the component mounts and fetchQuiz
\* awaits api.get.
OpenQuiz ==
  /\ attemptView = "closed"
  /\ attemptView' = "loading"
  /\ UNCHANGED <<authVars, quizVars, quiz, responses, currentQuestionIndex,
                 isSubmitting, timeRemaining, timerSeesSubmitting,
                 attemptPosts>>

\* fetchQuiz got the quiz, with n questions: the time limit is set and the
\* timer effect starts the interval, whose callback closes over this render.
FetchQuizOk(n) ==
  /\ attemptView = "loading"
  /\ attemptView' = "quiz"
  /\ quiz' = n
  /\ timeRemaining' = TimeLimit(n)
  /\ timerSeesSubmitting' = isSubmitting
  /\ UNCHANGED <<authVars, quizVars, responses, currentQuestionIndex,
                 isSubmitting, attemptPosts>>

\* fetchQuiz failed: the error view is shown.
FetchQuizFail ==
  /\ attemptView = "loading"
  /\ attemptView' = "error"
  /\ UNCHANGED <<authVars, quizVars, quiz, responses, currentQuestionIndex,
                 isSubmitting, timeRemaining, timerSeesSubmitting,
                 attemptPosts>>

\* QuizAttempt.handleAnswerSelect for the question shown.
AttemptAnswerSelect ==
  /\ attemptView = "quiz"
  /\ responses' = responses \cup {currentQuestionIndex}
  /\ UNCHANGED <<authVars, quizVars, quiz, currentQuestionIndex,
                 isSubmitting, timeRemaining, timerSeesSubmitting,
                 attemptPosts, attemptView>>

\* "Next", enabled once the question shown is answered.
handleNextQuestion ==
  /\ attemptView = "quiz"
  /\ currentQuestionIndex < quiz - 1
  /\ currentQuestionIndex \in responses
  /\ currentQuestionIndex' = currentQuestionIndex + 1
  /\ UNCHANGED <<authVars, quizVars, quiz, responses, isSubmitting,
                 timeRemaining, timerSeesSubmitting, attemptPosts,
                 attemptView>>

\* "Previous".
handlePreviousQuestion ==
  /\ attemptView = "quiz"
  /\ currentQuestionIndex > 0
  /\ currentQuestionIndex' = currentQuestionIndex - 1
  /\ UNCHANGED <<authVars, quizVars, quiz, responses, isSubmitting,
                 timeRemaining, timerSeesSubmitting, attemptPosts,
                 attemptView>>

\* A button of the question navigation: setCurrentQuestionIndex(index).
GoToQuestion(index) ==
  /\ attemptView = "quiz"
  /\ index < quiz
  /\ currentQuestionIndex' = index
  /\ UNCHANGED <<authVars, quizVars, quiz, responses, isSubmitting,
                 timeRemaining, timerSeesSubmitting, attemptPosts,
                 attemptView>>

\* handleSubmitQuiz up to await api.post('/quizzes/attempt', ...), called
\* from a closure in which isSubmitting has the value seen.
handleSubmitQuiz(seen) ==
  IF seen
  THEN UNCHANGED <<isSubmitting, attemptPosts>>
  ELSE /\ isSubmitting' = TRUE
       /\ attemptPosts' = attemptPosts + 1

\* "Submit Quiz": shown on the last question, enabled once every question is
\* answered and isSubmitting is false; its handler is the current render's.
SubmitQuizClick ==
  /\ attemptView = "quiz"
  /\ ~(currentQuestionIndex < quiz - 1)
  /\ ~(isSubmitting \/ Cardinality(responses) < quiz)
  /\ handleSubmitQuiz(isSubmitting)
  /\ UNCHANGED <<authVars, quizVars, quiz, responses, currentQuestionIndex,
                 timeRemaining, timerSeesSubmitting, attemptView>>

\* The interval fires with more than a second left: timeRemaining changes, so
\* the effect runs again and the new interval's callback closes over the
\* render of this moment.
TimerTick ==
  /\ attemptView \in {"quiz", "error"}
  /\ timeRemaining > 1
  /\ timeRemaining' = timeRemaining - 1
  /\ timerSeesSubmitting' = isSubmitting
  /\ UNCHANGED <<authVars, quizVars, quiz, responses, currentQuestionIndex,
                 isSubmitting, attemptPosts, attemptView>>

\* The interval fires with prevTime <= 1: the callback's own handleSubmitQuiz
\* is called and the time is set to 0, which ends the timer.
TimerExpire ==
  /\ attemptView \in {"quiz", "error"}
  /\ timeRemaining = 1
  /\ handleSubmitQuiz(timerSeesSubmitting)
  /\ timeRemaining' = 0
  /\ UNCHANGED <<authVars, quizVars, quiz, responses, currentQuestionIndex,
                 timerSeesSubmitting, attemptView>>

\* The attempt was saved: navigate to the results page; QuizAttempt unmounts.
AttemptPostOk ==
  /\ attemptPosts > 0
  /\ attemptPosts' = attemptPosts - 1
  /\ attemptView' = "results"
  /\ UNCHANGED <<authVars, quizVars, quiz, responses, currentQuestionIndex,
                 isSubmitting, timeRemaining, timerSeesSubmitting>>

\* Saving failed: the catch sets the error and clears isSubmitting (nothing
\* when the component is gone).
AttemptPostFail ==
  /\ attemptPosts > 0
  /\ attemptPosts' = attemptPosts - 1
  /\ IF attemptView = "results"
     THEN UNCHANGED <<isSubmitting, attemptView>>
     ELSE isSubmitting' = FALSE /\ attemptView' = "error"
  /\ UNCHANGED <<authVars, quizVars, quiz, responses, currentQuestionIndex,
                 timeRemaining, timerSeesSubmitting>>

AttemptNext ==
  \/ OpenQuiz
  \/ \E n \in 1..MaxQuestions : FetchQuizOk(n)
  \/ FetchQuizFail
  \/ AttemptAnswerSelect
  \/ handleNextQuestion
  \/ handlePreviousQuestion
  \/ \E index \in 0..(MaxQuestions - 1) : GoToQuestion(index)
  \/ SubmitQuizClick
  \/ TimerTick
  \/ TimerExpire
  \/ AttemptPostOk
  \/ AttemptPostFail

\* One visit of the timed quiz.
AttemptSpec == AttemptInit /\ [][AttemptNext]_vars

\* ============================================================== claims
\* The step ends the call in slot r.
Settles(r) ==
  /\ req[r].pc # "idle"
  /\ req'[r] = (IF r + 1 \in Reqs THEN req[r + 1] ELSE IdleReq)
  /\ req' = Compact(req, r)
\* The call in slot r is the same after the step, in its slot or one up.
Stays(r) == req'[r] = req[r] \/ (r > 1 /\ req'[r - 1] = req[r])
InFlight(q) == Cardinality({r \in Reqs : q[r].pc # "idle"})

\* C1 (as stated): the session state is unknown only before the first
\* principal-change notification is delivered, and once it has left unknown
\* it never returns to it.
C1_UnknownOnlyBeforeFirstNotification ==
  /\ [](SessionState = "unknown" => ~notified)
  /\ [][SessionState # "unknown" => SessionState' # "unknown"]_vars

\* C1 (amended): the session state is unknown only until a subscription
\* callback has run to its end (for a non-null principal: after the mint and
\* the /users/me call have settled), and once it has left unknown it never
\* returns to it.
C1_UnknownUntilFirstCallbackEnds ==
  /\ [](SessionState = "unknown" => ~handled)
  /\ [][SessionState # "unknown" => SessionState' # "unknown"]_vars

\* C1 witness: two notifications (a user, then null after a logout) have been
\* handled and the state is unauthenticated.
C1_Witness ==
  /\ handled /\ notified
  /\ SessionState = "unauthenticated"
  /\ logoutRes = Resolved("true")
  /\ notifQ = <<>>

\* C2 (as stated): when logout() completes the credential store is empty,
\* whether the remote sign-out resolved or threw.
C2_LogoutEmptiesStore ==
  [][(LogoutClear \/ LogoutSignOutFail) => store' = NoToken]_vars

\* C3 (as stated): 401 responses empty the store and start the navigation
\* to the login page at most once in a run, however many calls get a 401.
C3_SingleRedirect ==
  /\ [][(\E r \in Reqs : RespUnauthorized(r)) => store' = NoToken]_vars
  /\ [](navCount <= 1)

\* C4: when the request interceptor's mint fails while the store holds a
\* credential, the call is sent with that credential as its header and the
\* store is unchanged.
C4_FallbackToStored ==
  [][\A r \in Reqs :
       (ReqMintFail(r) /\ store # NoToken)
         => /\ req'[r].pc = "sent"
            /\ req'[r].hdr = store
            /\ store' = store]_vars

\* C4 witness: a call in flight that carries the stored credential after its
\* mint failed.
C4_Witness ==
  \E r \in Reqs :
    /\ req[r].pc = "sent"
    /\ req[r].how = "fallback"
    /\ req[r].hdr # NoToken
    /\ req[r].hdr = store

\* C5: a login whose sign-in the provider rejects with error e rejects with
\* e, and no step of that call changes the credential store.
C5_FailedLoginKeepsStore ==
  [][/\ (LoginStart => store' = store)
     /\ \A e \in SignInErrors :
          LoginSignInFail(e) => (store' = store /\ loginRes' = Rejected(e))]_vars

\* C5 witness: login rejected with the wrong-password error while the store
\* holds a credential.
C5_Witness ==
  /\ loginPc = "idle"
  /\ loginRes = Rejected("auth/wrong-password")
  /\ store # NoToken

\* C10: logout() never rejects; it resolves to false when the remote
\* sign-out threw and to true when it did not.
C10_LogoutResult ==
  [][/\ logoutRes'.kind # "rejected"
     /\ (LogoutSignOutFail => logoutRes' = Resolved("false"))
     /\ (LogoutClear => logoutRes' = Resolved("true"))
     /\ (logoutRes' # logoutRes /\ logoutRes'.kind = "resolved"
           => LogoutSignOutFail \/ LogoutClear)]_vars

\* C10 witness: logout resolved to false after the remote sign-out threw.
C10_Witness ==
  /\ logoutPc = "idle"
  /\ logoutRes = Resolved("false")
  /\ idpUser = U1

\* ------------------------------------------------------ grading claims
\* What a grading produced: the attempt being saved and the kept result.
Graded ==
  {posting[k] : k \in DOMAIN posting} \cup {quizResults[k] : k \in DOMAIN quizResults}
QuizData == generatedContent[1].data
CountCorrect(entries) ==
  Cardinality({i \in DOMAIN entries : entries[i].is_correct})
FirstCharacter(str) == SubSeq(str, 1, 1)

\* C6: for a non-empty question set of length N, a grading has exactly N
\* entries, in question order, and its score is (correct entries)/N, between
\* 0 and 1.
C6_EntriesAndScore ==
  \A g \in Graded :
    Len(QuizData) >= 1 =>
      /\ Len(g.questions) = Len(QuizData)
      /\ \A i \in 1..Len(QuizData) : g.questions[i].question = QuizData[i].text
      /\ g.score = <<CountCorrect(g.questions), Len(QuizData)>>
      /\ 0 <= g.score[1] /\ g.score[1] <= g.score[2]

\* C6 witness: a three-question quiz graded on a partial answer record, one
\* answer correct.
C6_Witness ==
  /\ posting # <<>>
  /\ Len(QuizData) = 3
  /\ posting[1].score = <<1, 3>>
  /\ \E i \in 1..3 : posting[1].questions[i].selected_option = Undefined

\* C7: grading marks entry i correct exactly when the label selected at i is
\* the first character of question i's correct answer, and the entry holds
\* question i's text, selected label, correct label and explanation; a click
\* stores the option's first character. Correct answers A, B, C with
\* selections A, A, C give [true, false, true] and 2/3. (A click on a
\* submitted quiz stores nothing: C22.)
C7_PerQuestion ==
  /\ [][(~isSubmittingQuiz /\ isSubmittingQuiz' /\ handleQuizSubmit) =>
          \A i \in 1..Len(QuizData) :
            LET e == posting'[1].questions[i]
                q == QuizData[i]
                sel == IF i \in DOMAIN selectedAnswers
                       THEN selectedAnswers[i] ELSE Undefined
            IN  /\ e.is_correct <=> (sel = FirstCharacter(q.correct_answer))
                /\ e.question = q.text
                /\ e.selected_option = sel
                /\ e.correct_answer = FirstCharacter(q.correct_answer)
                /\ e.explanation = q.explanation]_vars
  /\ [][(~quizSubmitted /\ selectedAnswers' # selectedAnswers)
          => \A i \in 1..MaxQuestions, o \in 1..Len(Options) :
               handleAnswerSelect(i, Options[o])
                 => selectedAnswers'[i] = FirstCharacter(Options[o])]_vars
  /\ [](\A g \in Graded :
          (/\ QuizData = ScenarioSet
           /\ [i \in 1..3 |-> g.questions[i].selected_option]
                = <<<<"A">>, <<"A">>, <<"C">>>>)
            => /\ [i \in 1..3 |-> g.questions[i].is_correct]
                    = <<TRUE, FALSE, TRUE>>
               /\ g.score = <<2, 3>>)

\* C7 witness: the scenario graded and kept: A, B, C answered A, A, C.
C7_Witness ==
  /\ quizSubmitted
  /\ quizResults # <<>>
  /\ QuizData = ScenarioSet
  /\ selectedAnswers = <<<<"A">>, <<"A">>, <<"C">>>>
  /\ quizResults[1].score = <<2, 3>>

\* C8: a position with no entry in the answer record is graded incorrect,
\* and the grading goes through.
C8_UnansweredIncorrect ==
  [][(~isSubmittingQuiz /\ isSubmittingQuiz' /\ handleQuizSubmit) =>
       /\ posting' # <<>>
       /\ \A i \in 1..Len(QuizData) :
            i \notin DOMAIN selectedAnswers
              => /\ posting'[1].questions[i].is_correct = FALSE
                 /\ posting'[1].questions[i].selected_option = Undefined]_vars

\* C8 witness: a quiz graded with no answer at all: every entry incorrect.
C8_Witness ==
  /\ posting # <<>>
  /\ selectedAnswers = <<>>
  /\ Len(QuizData) = 2
  /\ posting[1].score = <<0, 2>>

\* ------------------------------------------- error propagation claims
\* C11 (as stated): login and register never suppress a failure: when the
\* sign-in or sign-up, the profile update, or the call's own credential mint
\* throws, the call rejects with that error and does not resolve.
C11_NoSuppressedFailure ==
  [][/\ \A e \in SignInErrors : LoginSignInFail(e) => loginRes' = Rejected(e)
     /\ LoginMint2Fail => loginRes' = Rejected(TokenError)
     /\ \A e \in SignUpErrors :
          RegisterSignUpFail(e) => registerRes' = Rejected(e)
     /\ RegisterProfileFail => registerRes' = Rejected(ProfileError)
     /\ RegisterMint2Fail => registerRes'.kind = "rejected"]_vars

\* C12: login resolves to true only in the step in which it writes the
\* credential it has just minted, after the sign-in went through, into the
\* store.
C12_TrueLoginStoredMint ==
  [][/\ (loginRes' = Resolved("true") /\ loginRes # Resolved("true"))
          => (loginPc = "mint2" /\ store' = Fresh /\ store' # NoToken)
     /\ (loginPc' = "mint2" /\ loginPc # "mint2") => loginPc = "mint1"
     /\ (loginPc' = "mint1" /\ loginPc # "mint1")
          => (loginPc = "signin" /\ idpUser' = U1)]_vars

\* C12 witness: login has resolved to true, its credential is in the store,
\* and the sign-in's notification has not been delivered yet.
C12_Witness ==
  /\ loginPc = "idle"
  /\ loginRes = Resolved("true")
  /\ store # NoToken
  /\ notifQ = <<U1>>

\* C13: when the request interceptor's forced mint resolves, the call is sent
\* with the minted credential as its header, not the one the store held, and
\* the store holds the minted credential afterwards.
C13_FreshMintAttached ==
  [][\A r \in Reqs :
       (req[r].pc = "mint" /\ ReqMintOk(r))
         => /\ req'[r].pc = "sent"
            /\ req'[r].hdr = Fresh
            /\ req'[r].hdr # store
            /\ store' = Fresh]_vars

\* C13 witness: a component's call in flight with a minted credential that
\* the store now holds.
C13_Witness ==
  \E r \in Reqs :
    /\ req[r].pc = "sent"
    /\ req[r].owner = 0
    /\ req[r].how = "fresh"
    /\ req[r].hdr = store

\* C14: the request interceptor never gives a call up: a call awaiting its
\* mint is sent next, and with no credential from the mint or the store (no
\* principal and an empty store, or a failed mint and an empty store) it is
\* sent without a header.
C14_SentWithoutHeader ==
  [][\A r \in Reqs :
       /\ (req[r].pc = "mint" /\ ~Stays(r))
            => \/ req'[r].pc = "sent" /\ req'[r].owner = req[r].owner
               \/ unloaded'
       /\ (store = NoToken /\ req[r].pc = "mint" /\ ReqMintFail(r))
            => (req'[r].pc = "sent" /\ req'[r].hdr = NoToken)
       /\ (store = NoToken /\ idpUser = NoUser /\ req[r].pc = "idle"
             /\ AppRequest(r))
            => (req'[r].pc = "sent" /\ req'[r].hdr = NoToken)]_vars

\* C14 witness: the first call of a component, made with a principal and an
\* empty store, in flight without a header after its mint failed.
C14_Witness ==
  /\ ops = 1
  /\ idpUser = U1
  /\ store = NoToken
  /\ loginRes = NoResult /\ registerRes = NoResult
  /\ \E r \in Reqs :
       /\ req[r].pc = "sent"
       /\ req[r].owner = 0
       /\ req[r].how = "bare"
       /\ req[r].hdr = NoToken

\* C15: a successful response, a timeout, a network error and a status other
\* than 401 leave the store alone and start no navigation: a step that
\* settles a call and changes the store, the navigation count or the location
\* is the handling of none of them.
C15_Only401Invalidates ==
  [][\A r \in Reqs :
       (/\ req[r].pc = "sent" /\ ~unloaded'
        /\ \/ store' # store
           \/ navCount' # navCount
           \/ navPending' # navPending
           \/ location' # location)
         => /\ ~RespSuccess(r)
            /\ \A e \in OtherErrors : ~RespError(r, e)]_vars

\* C15 witness: a component's call failed with status 500; the store still
\* holds a credential and no navigation was started.
C15_Witness ==
  /\ lastOutcome = Rejected(ServerError)
  /\ store # NoToken
  /\ navCount = 0 /\ ~navPending
  /\ \A r \in Reqs : req[r].pc = "idle"

\* C16: a call that has been sent is never sent again, and a timeout, a
\* network error, an error status and a 401 each reject the component's call
\* with that same error.
C16_NoRetry ==
  [][\A r \in Reqs :
       req[r].pc = "sent"
         => /\ (Stays(r) \/ Settles(r) \/ unloaded')
            /\ (req[r].owner = 0 /\ Settles(r))
                 => /\ \A e \in OtherErrors :
                         RespError(r, e) => lastOutcome' = Rejected(e)
                    /\ RespUnauthorized(r)
                         => lastOutcome' = Rejected(Unauthorized)]_vars

\* C16 witness: the only call made timed out and was rejected with the
\* timeout; nothing is in flight.
C16_Witness ==
  /\ ops = 1
  /\ lastOutcome = Rejected(Timeout)
  /\ \A r \in Reqs : req[r].pc = "idle"

\* ------------------------------------------- notification claims
\* C17: a notification with a principal sets the user and starts a forced
\* mint; the minted credential is stored; when the mint fails the store and
\* the user are left as they are, so that the session state is authenticated
\* unless a later null notification has already been handled.
C17_MintFailureKeepsSession ==
  [][\A h \in Handlers :
       /\ (hpc[h] = "free" /\ AuthChangedUser(h))
            => (firebaseUser' = Head(notifQ) /\ hpc'[h] = "mint")
       /\ (hpc[h] = "mint" /\ \E r \in Reqs : HandlerMintOk(h, r))
            => store' = Fresh
       /\ (hpc[h] = "mint" /\ HandlerMintFail(h))
            => /\ store' = store
               /\ firebaseUser' = firebaseUser
               /\ (firebaseUser # NoUser => SessionState' = "authenticated")
               /\ SessionState' # "unknown"]_vars

\* C17 witness: the initial notification carried a principal, its mint
\* failed: the credential stored before is still there and the state is
\* authenticated.
C17_Witness ==
  /\ ops = 0
  /\ handled
  /\ \A h \in Handlers : hpc[h] = "free"
  /\ store = Token(1)
  /\ SessionState = "authenticated"

\* C18: a notification with a null principal empties the store and makes the
\* session state unauthenticated.
C18_NullClears ==
  [][AuthChangedNull
       => (store' = NoToken /\ SessionState' = "unauthenticated")]_vars

\* C18 witness: the null notification that follows a successful sign-out has
\* been handled.
C18_Witness ==
  /\ logoutRes = Resolved("true")
  /\ notifQ = <<>>
  /\ store = NoToken
  /\ SessionState = "unauthenticated"
  /\ \A h \in Handlers : hpc[h] = "free"

\* C19: the session state changes only in a step of a subscription callback
\* (its start, its end after a failed mint or after the /users/me call, the
\* error callback); login, register, logout, resetPassword and the calls of
\* components leave it unchanged.
C19_SingleWriter ==
  [][/\ SessionState' # SessionState
          => \/ AuthChangedNull
             \/ \E h \in Handlers : AuthChangedUser(h) \/ HandlerMintFail(h)
             \/ AuthStateError
             \/ \E r \in Reqs :
                  /\ req[r].owner # 0
                  /\ \/ RespSuccess(r)
                     \/ RespUnauthorized(r)
                     \/ \E e \in OtherErrors : RespError(r, e)
     /\ (\/ loginPc' # loginPc \/ loginRes' # loginRes
         \/ logoutPc' # logoutPc \/ logoutRes' # logoutRes
         \/ registerPc' # registerPc \/ registerRes' # registerRes
         \/ resetPc' # resetPc \/ resetRes' # resetRes
         \/ \E r \in Reqs :
              /\ req[r].owner = 0
              /\ \/ req[r].pc = "idle" /\ req'[r].pc # "idle"
                    /\ req'[r].owner = 0
                 \/ req[r].pc # "idle" /\ req'[r].pc # req[r].pc
                    /\ InFlight(req') = InFlight(req)
                 \/ Settles(r))
          => (unloaded' \/ SessionState' = SessionState)]_vars

\* C19 witness: login has resolved to true and the session state is still
\* unauthenticated, the notification being due.
C19_Witness ==
  /\ loginRes = Resolved("true")
  /\ SessionState = "unauthenticated"
  /\ notifQ # <<>>
  /\ resetRes = NoResult

\* C20: while the session state is unknown a protected route neither
\* redirects nor shows its content; unauthenticated, it redirects to the
\* login page; its content is shown only when authenticated.
C20_GatingDistinguishesUnknown ==
  /\ []((~unloaded /\ location \in ProtectedPaths)
          => /\ SessionState = "unknown" => Shown \notin {"navigate", "children"}
             /\ SessionState = "unauthenticated" => Shown = "navigate"
             /\ Shown = "children" => SessionState = "authenticated")
  /\ [][ProtectedRedirect
          => (SessionState = "unauthenticated" /\ location' = LoginPath)]_vars

\* C20 witness: on a protected route after a notification left the session
\* unauthenticated: the route redirects.
C20_Witness ==
  /\ ~unloaded
  /\ location \in ProtectedPaths
  /\ SessionState = "unauthenticated"
  /\ Shown = "navigate"
  /\ notified

\* ------------------------------------------- subscription lifetime
\* C23: the principal-change subscription is created once in a lifetime of
\* AuthProvider and cancelled exactly once, at teardown; after teardown no
\* subscription is active and no callback is started.
C23_SubscribedOnceCancelledOnce ==
  /\ [](/\ listeners <= 1
        /\ (mounted = "no" => listeners = 0 /\ unsubscribed = 0)
        /\ (mounted = "yes" => listeners = 1 /\ unsubscribed = 0)
        /\ (mounted = "gone" => listeners = 0 /\ unsubscribed = 1))
  /\ [][mounted = "gone" => /\ notifQ' = notifQ
                            /\ notified' = notified
                            /\ mounted' = "gone"]_vars

\* C23 witness: the provider was torn down while a notification was still
\* due; the subscription is cancelled and the notification is never handled.
C23_Witness ==
  /\ mounted = "gone"
  /\ listeners = 0 /\ unsubscribed = 1
  /\ notifQ # <<>>
  /\ ~notified

\* ------------------------------------------- navigation after login
\* C24: the navigation to the dashboard that follows a successful login takes
\* place only while the session state is authenticated.
C24_NavigateOnlyAuthenticated ==
  [][(navTimer /\ LoginNavigate) => SessionState = "authenticated"]_vars

\* ------------------------------------------- 401 handling
\* C25: a 401 handled while the location is the login entry point empties the
\* store and starts no navigation.
C25_NoRedirectAtLogin ==
  [][\A r \in Reqs :
       (/\ location = LoginPath
        /\ req[r].pc = "sent" /\ Settles(r)
        /\ RespUnauthorized(r))
         => /\ store' = NoToken
            /\ navCount' = navCount
            /\ navPending' = navPending
            /\ location' = location]_vars

\* C25 witness: a component's call was answered with a 401 after the location
\* had become the login entry point; the store is empty and no navigation has
\* been started.
C25_Witness ==
  /\ lastOutcome = Rejected(Unauthorized)
  /\ location = LoginPath
  /\ store = NoToken
  /\ navCount = 0 /\ ~navPending /\ ~unloaded

\* C26: once a null notification has been handled and every callback and
\* call has finished, with nobody signed in, the store is empty.
C26_EmptyAfterSignOutQuiesces ==
  (/\ idpUser = NoUser
   /\ firebaseUser = NoUser
   /\ notified
   /\ notifQ = <<>>
   /\ ~unloaded
   /\ loginPc = "idle" /\ registerPc = "idle" /\ logoutPc = "idle"
   /\ \A h \in Handlers : hpc[h] = "free"
   /\ \A r \in Reqs : req[r].pc = "idle")
    => store = NoToken

\* C27: handling a 401 empties the store and leaves the principal and the
\* user as they are (and the whole session state, for a component's call);
\* a call started while the principal is known mints, and the minted
\* credential is attached and stored.
C27_401ClearsOnlyStore ==
  [][\A r \in Reqs :
       /\ (req[r].pc = "sent" /\ Settles(r) /\ RespUnauthorized(r))
            => /\ store' = NoToken
               /\ idpUser' = idpUser
               /\ notifQ' = notifQ
               /\ firebaseUser' = firebaseUser
               /\ (req[r].owner = 0 => SessionState' = SessionState)
       /\ (req[r].pc = "idle" /\ req'[r].pc # "idle" /\ idpUser # NoUser)
            => req'[r].pc = "mint"
       /\ (req[r].pc = "mint" /\ req'[r].pc = "sent" /\ ReqMintOk(r))
            => /\ store' # NoToken
               /\ store' \notin InUse
               /\ req'[r].hdr = store']_vars

\* C27 witness: a component's call was answered with a 401; the principal is
\* still known, the user is still set, and a later call has minted, carries
\* the new credential and has put it in the store.
C27_Witness ==
  /\ lastOutcome = Rejected(Unauthorized)
  /\ idpUser = U1 /\ firebaseUser = U1
  /\ \A h \in Handlers : hpc[h] = "free"
  /\ \E r \in Reqs : /\ req[r].pc = "sent"
                     /\ req[r].owner = 0
                     /\ req[r].how = "fresh"
                     /\ req[r].hdr = store
  /\ store # NoToken

\* C28: the store is empty or holds a credential, and every step that changes
\* it empties it or writes the credential a mint returns at that step.
C28_StoreHoldsMintedOnly ==
  /\ [](store = NoToken \/ \E k \in 1..(MaxOps + 3) : store = Token(k))
  /\ [][store' # store
          => \/ store' = NoToken
             \/ store' = Fresh
             \/ (registerPc = "mint2" /\ store' \in Unforced)]_vars

\* C28 witness: the store holds the second credential minted in this run.
C28_Witness ==
  /\ store = Token(2)
  /\ ops = MaxOps
  /\ \A r \in Reqs : req[r].pc = "idle"
  /\ \A h \in Handlers : hpc[h] = "free"

\* ------------------------------------------- practice quiz, continued
\* C21: grading an empty question set produces no attempt to save and records
\* no result.
C21_EmptySetNotGraded ==
  (IsQuiz /\ generatedContent[1].data = <<>>)
    => (posting = <<>> /\ quizResults = <<>> /\ ~quizSubmitted)

\* C22: while the quiz is submitted a result is held and neither it nor the
\* selections change, whatever is clicked; the quiz leaves the submitted
\* state only by "Try Again" or by new content arriving, and then the result
\* is discarded and the answer record is empty.
C22_ResultImmutable ==
  /\ [](quizSubmitted => quizResults # <<>>)
  /\ [][/\ (quizSubmitted /\ quizSubmitted')
             => (selectedAnswers' = selectedAnswers
                 /\ quizResults' = quizResults)
        /\ (quizSubmitted /\ ~quizSubmitted')
             => /\ selectedAnswers' = <<>>
                /\ quizResults' = <<>>
                /\ (handleTryAgain \/ \E c \in GeneratedContents : GenerateOk(c))
        /\ (~quizSubmitted /\ generatedContent' # generatedContent
              /\ generatedContent' # <<>>)
             => /\ selectedAnswers' = <<>>
                /\ quizResults' = <<>>
                /\ ~quizSubmitted']_vars

\* C22 witness: the three-question scenario was answered and submitted; the
\* result and the selections are held, and an option can still be clicked.
C22_Witness ==
  /\ IsQuiz
  /\ generatedContent[1].data = ScenarioSet
  /\ quizSubmitted
  /\ quizResults # <<>>
  /\ Len(quizResults[1].questions) = 3
  /\ DOMAIN selectedAnswers = 1..3
  /\ ENABLED handleAnswerSelect(1, Options[2])

\* C29: when saving the attempt fails no result is stored, the quiz is not
\* marked submitted, the selections stay and the submitting flag is false
\* again.
C29_FailedSaveStaysUngraded ==
  [][(posting # <<>> /\ posting' = <<>> /\ QuizPostFail)
       => /\ quizResults' = quizResults
          /\ quizSubmitted' = quizSubmitted
          /\ selectedAnswers' = selectedAnswers
          /\ generatedContent' = generatedContent
          /\ ~isSubmittingQuiz'
          /\ (quizSubmitted' <=> quizResults' # <<>>)]_vars

\* C29 witness: every question of the scenario is answered, saving the attempt
\* failed and is over, and the quiz is neither submitted nor graded.
C29_Witness ==
  /\ dashboardError = SubmitError
  /\ IsQuiz
  /\ generatedContent[1].data = ScenarioSet
  /\ DOMAIN selectedAnswers = 1..3
  /\ ~isSubmittingQuiz /\ posting = <<>>
  /\ ~quizSubmitted /\ quizResults = <<>>

\* ------------------------------------------- the timed quiz
\* C30: at most one submission of a quiz attempt is in flight at a time.
C30_OneSubmissionInFlight == attemptPosts <= 1

====
